---- MODULE Spec2Model ----
(***************************************************************************)
(* Model of batch_pdf_processor.py: BatchPDFProcessor and main.            *)
(* Text is a sequence of character codes, so that lower(), strip(),        *)
(* split(), replace() and the regular expressions act on characters.       *)
(***************************************************************************)
EXTENDS Integers, Sequences, FiniteSets, TLC

VARIABLES
  \* the pure functions: position, inputs and results
  fn_pc, fn_text, fn_size, fn_chunks, fn_lang, fn_blocks,
  \* the run of main
  pc,             \* position in main / process_all_pdfs / process_single_pdf
  listing,        \* os.listdir(books_folder): the names in the folder
  unreadable,     \* the names fitz.open fails on
  pdf_files,      \* get_pdf_files()
  file_index,           \* index of the loop of process_all_pdfs (1-based)
  processed,      \* the names announced by "Processing:" (line 302)
  book_name,      \* locals of process_single_pdf
  metadata, text_chunks, images, code_blocks,
  errors_logged,  \* phases of the current book that printed "Error extracting"
  skipped,        \* the names announced by "Error processing" (line 322)
  books,          \* processed_data["books"], in insertion order
  summary,        \* processed_data["summary"]
  open_docs,      \* documents opened and not closed
  errs,           \* read errors raised so far
  rag_data,       \* the dictionary built by create_rag_ready_data
  written         \* the output files written, in order

fnVars == <<fn_pc, fn_text, fn_size, fn_chunks, fn_lang, fn_blocks>>
locals == <<book_name, metadata, text_chunks, images, code_blocks>>
runVars == <<pc, listing, unreadable, pdf_files, file_index, processed, book_name, metadata,
             text_chunks, images, code_blocks, errors_logged, skipped, books,
             summary, open_docs, errs, rag_data, written>>
vars == <<fn_pc, fn_text, fn_size, fn_chunks, fn_lang, fn_blocks,
          pc, listing, unreadable, pdf_files, file_index, processed, book_name, metadata,
          text_chunks, images, code_blocks, errors_logged, skipped, books,
          summary, open_docs, errs, rag_data, written>>

\* ---------------------------------------------------------------- bounds
MaxTextLen == 6
MaxTarget == 5
MaxFrags == 2
MaxFiles == 3
MaxUnreadable == 1
MaxErrors == 1

\* ------------------------------------------------------------ characters
\* str.isspace / regex \s on ASCII text
IsSpace(c) == c \in {9, 10, 11, 12, 13, 28, 29, 30, 31, 32}

\* regex \w on ASCII text
IsWord(c) == (c >= 48 /\ c <= 57) \/ (c >= 65 /\ c <= 90) \/ (c >= 97 /\ c <= 122) \/ c = 95

LowerChar(c) == IF c >= 65 /\ c <= 90 THEN c + 32 ELSE c

\* str.lower()
Lower(s) == [i \in 1..Len(s) |-> LowerChar(s[i])]

\* -------------------------------------------------------- str.split()
RECURSIVE SplitFrom(_, _, _, _)
SplitFrom(s, i, cur, acc) ==
  IF i > Len(s) THEN (IF cur = <<>> THEN acc ELSE Append(acc, cur))
  ELSE IF IsSpace(s[i])
       THEN SplitFrom(s, i + 1, <<>>, IF cur = <<>> THEN acc ELSE Append(acc, cur))
       ELSE SplitFrom(s, i + 1, Append(cur, s[i]), acc)

\* text.split(): the whitespace-delimited words, no empty word
Split(s) == SplitFrom(s, 1, <<>>, <<>>)

\* ' '.join(words)
RECURSIVE Join(_)
Join(ws) ==
  IF ws = <<>> THEN <<>>
  ELSE IF Len(ws) = 1 THEN ws[1]
  ELSE ws[1] \o <<32>> \o Join(Tail(ws))

\* str.strip()
RECURSIVE LStrip(_)
LStrip(s) == IF s # <<>> /\ IsSpace(s[1]) THEN LStrip(Tail(s)) ELSE s

RECURSIVE RStrip(_)
RStrip(s) == IF s # <<>> /\ IsSpace(s[Len(s)]) THEN RStrip(SubSeq(s, 1, Len(s) - 1)) ELSE s

Strip(s) == LStrip(RStrip(s))

\* the concatenation of a sequence of sequences
RECURSIVE ConcatAll(_)
ConcatAll(ss) == IF ss = <<>> THEN <<>> ELSE ss[1] \o ConcatAll(Tail(ss))

\* ------------------------------------------- _split_text_into_chunks
\* line 201 without the + 1 of the separating space
ClosesChunkMut(current_size, word, chunk_size, current_chunk) ==
  current_size + Len(word) > chunk_size /\ current_chunk # <<>>

\* the condition of line 201
ClosesChunk(current_size, word, chunk_size, current_chunk) ==
  current_size + Len(word) + 1 > chunk_size /\ current_chunk # <<>>

\* the loop with line 203 starting the new chunk empty: the word is lost
RECURSIVE ChunkLoopMut(_, _, _, _, _, _)
ChunkLoopMut(words, k, chunks, current_chunk, current_size, chunk_size) ==
  IF k > Len(words)
  THEN IF current_chunk # <<>> THEN Append(chunks, Join(current_chunk)) ELSE chunks
  ELSE IF ClosesChunk(current_size, words[k], chunk_size, current_chunk)
       THEN ChunkLoopMut(words, k + 1, Append(chunks, Join(current_chunk)),
                         <<>>, Len(words[k]), chunk_size)
       ELSE ChunkLoopMut(words, k + 1, chunks, Append(current_chunk, words[k]),
                         current_size + Len(words[k]) + 1, chunk_size)

\* the for loop of lines 200-207 from word k on, then the flush of 209-210
RECURSIVE ChunkLoop(_, _, _, _, _, _)
ChunkLoop(words, k, chunks, current_chunk, current_size, chunk_size) ==
  IF k > Len(words)
  THEN IF current_chunk # <<>> THEN Append(chunks, Join(current_chunk)) ELSE chunks
  ELSE IF ClosesChunk(current_size, words[k], chunk_size, current_chunk)
       THEN ChunkLoop(words, k + 1, Append(chunks, Join(current_chunk)),
                      <<words[k]>>, Len(words[k]), chunk_size)
       ELSE ChunkLoop(words, k + 1, chunks, Append(current_chunk, words[k]),
                      current_size + Len(words[k]) + 1, chunk_size)

split_text_into_chunks(text, chunk_size) ==
  ChunkLoop(Split(text), 1, <<>>, <<>>, 0, chunk_size)

\* ------------------------------------------- literals of the patterns
\* 'def'
Lit_def == <<100, 101, 102>>

\* 'import'
Lit_import == <<105, 109, 112, 111, 114, 116>>

\* 'print'
Lit_print == <<112, 114, 105, 110, 116>>

\* 'function'
Lit_function == <<102, 117, 110, 99, 116, 105, 111, 110>>

\* 'var'
Lit_var == <<118, 97, 114>>

\* 'let'
Lit_let == <<108, 101, 116>>

\* 'const'
Lit_const == <<99, 111, 110, 115, 116>>

\* 'public'
Lit_public == <<112, 117, 98, 108, 105, 99>>

\* 'class'
Lit_class == <<99, 108, 97, 115, 115>>

\* 'System.out'
Lit_System_out == <<83, 121, 115, 116, 101, 109, 46, 111, 117, 116>>

\* 'java'
Lit_java == <<106, 97, 118, 97>>

\* '#include'
Lit_include == <<35, 105, 110, 99, 108, 117, 100, 101>>

\* 'int'
Lit_int == <<105, 110, 116>>

\* 'main'
Lit_main == <<109, 97, 105, 110>>

\* 'printf'
Lit_printf == <<112, 114, 105, 110, 116, 102>>

\* 'php'
Lit_php == <<112, 104, 112>>

\* 'echo'
Lit_echo == <<101, 99, 104, 111>>

\* 'puts'
Lit_puts == <<112, 117, 116, 115>>

\* 'return'
Lit_return == <<114, 101, 116, 117, 114, 110>>

\* '```'
Lit_fence == <<96, 96, 96>>

\* '\n```'
Lit_nl_fence == <<10, 96, 96, 96>>

\* ------------------------------------------------- regular expressions
\* A match of a pattern at position i is the record [e, gs, ge]: the match
\* is s[i..e-1] and its group 1 is s[gs..ge-1].  NoMatch has e = 0.
NoMatch == [e |-> 0, gs |-> 0, ge |-> 0]

Whole(i, e) == [e |-> e, gs |-> i, ge |-> e]

\* the literal at position i
LitAt(s, i, lit) ==
  i >= 1 /\ i + Len(lit) - 1 <= Len(s) /\ SubSeq(s, i, i + Len(lit) - 1) = lit

CharAt(s, i, c) == i >= 1 /\ i <= Len(s) /\ s[i] = c

SpaceAt(s, i) == i >= 1 /\ i <= Len(s) /\ IsSpace(s[i])

WordAt(s, i) == i >= 1 /\ i <= Len(s) /\ IsWord(s[i])

\* \s* from i: the position after the longest run of whitespace
SpaceEnd(s, i) ==
  CHOOSE j \in i..(Len(s) + 1) :
    (\A k \in i..(j - 1) : IsSpace(s[k])) /\ ~SpaceAt(s, j)

\* \w* from i: the position after the longest run of word characters
WordEnd(s, i) ==
  CHOOSE j \in i..(Len(s) + 1) :
    (\A k \in i..(j - 1) : IsWord(s[k])) /\ ~WordAt(s, j)

\* [\w\s,]* from i
ImportClassEnd(s, i) ==
  CHOOSE j \in i..(Len(s) + 1) :
    /\ \A k \in i..(j - 1) : IsWord(s[k]) \/ IsSpace(s[k]) \/ s[k] = 44
    /\ ~(j <= Len(s) /\ (IsWord(s[j]) \/ IsSpace(s[j]) \/ s[j] = 44))

\* the first position j >= i with s[j] in cs, 0 when there is none
FirstAt(s, i, cs) ==
  IF \E j \in i..Len(s) : s[j] \in cs
  THEN CHOOSE j \in i..Len(s) : s[j] \in cs /\ \A k \in i..(j - 1) : s[k] \notin cs
  ELSE 0

\* .*?(?=\n\S|\Z) from i under DOTALL: the first position p >= i that is the
\* end of the text or a newline followed by a non-whitespace character
LazyToTopLevel(s, i) ==
  CHOOSE p \in i..(Len(s) + 1) :
    /\ p = Len(s) + 1 \/ (s[p] = 10 /\ p + 1 <= Len(s) /\ ~IsSpace(s[p + 1]))
    /\ \A q \in i..(p - 1) : ~(s[q] = 10 /\ q + 1 <= Len(s) /\ ~IsSpace(s[q + 1]))

\* lit\s+ at i: the position after the whitespace, 0 when no match
LitSpaces(s, i, lit) ==
  IF LitAt(s, i, lit) /\ SpaceAt(s, i + Len(lit)) THEN SpaceEnd(s, i + Len(lit)) ELSE 0

\* lit\s+\w+ at i: the position after the name, 0 when no match
LitSpacesName(s, i, lit) ==
  LET j == LitSpaces(s, i, lit)
  IN IF j # 0 /\ WordAt(s, j) THEN WordEnd(s, j) ELSE 0

\* lit\s*c at i: the position after c, 0 when no match
LitOptSpacesChar(s, i, lit, c) ==
  IF LitAt(s, i, lit) /\ CharAt(s, SpaceEnd(s, i + Len(lit)), c)
  THEN SpaceEnd(s, i + Len(lit)) + 1 ELSE 0

\* l1\s+l2 at i
LitSpacesLit(s, i, l1, l2) ==
  LET j == LitSpaces(s, i, l1) IN j # 0 /\ LitAt(s, j, l2)

\* code_patterns[1]: ```[\w]*\n(.*?)\n```
PatFenced(s, i) ==
  IF LitAt(s, i, Lit_fence) /\ CharAt(s, WordEnd(s, i + 3), 10)
  THEN LET b == WordEnd(s, i + 3) + 1
       IN IF \E c \in b..Len(s) : LitAt(s, c, Lit_nl_fence)
          THEN LET c == CHOOSE c \in b..Len(s) :
                          LitAt(s, c, Lit_nl_fence)
                          /\ \A d \in b..(c - 1) : ~LitAt(s, d, Lit_nl_fence)
               IN [e |-> c + 4, gs |-> b, ge |-> c]
          ELSE NoMatch
  ELSE NoMatch

\* code_patterns[2]: `([^`]+)`
PatInline(s, i) ==
  IF CharAt(s, i, 96) /\ i + 1 <= Len(s) /\ s[i + 1] # 96 /\ FirstAt(s, i + 1, {96}) # 0
  THEN [e |-> FirstAt(s, i + 1, {96}) + 1, gs |-> i + 1, ge |-> FirstAt(s, i + 1, {96})]
  ELSE NoMatch

\* code_patterns[3]: (def\s+\w+\s*\([^)]*\):.*?)(?=\n\S|\Z)
PatDef(s, i) ==
  LET k == LitSpacesName(s, i, Lit_def)
  IN IF k # 0 /\ CharAt(s, SpaceEnd(s, k), 40)
     THEN LET c == FirstAt(s, SpaceEnd(s, k) + 1, {41})
          IN IF c # 0 /\ CharAt(s, c + 1, 58)
             THEN Whole(i, LazyToTopLevel(s, c + 2))
             ELSE NoMatch
     ELSE NoMatch

\* code_patterns[4]: (import\s+[\w\s,]+)
PatImport(s, i) ==
  IF LitAt(s, i, Lit_import) /\ SpaceAt(s, i + 6) /\ ImportClassEnd(s, i + 6) >= i + 8
  THEN Whole(i, ImportClassEnd(s, i + 6))
  ELSE NoMatch

\* code_patterns[5] and [6]: (class\s+\w+.*?)(?=\n\S|\Z), (function\s+\w+.*?)(?=\n\S|\Z)
PatKeywordName(s, i, lit) ==
  LET k == LitSpacesName(s, i, lit)
  IN IF k # 0 THEN Whole(i, LazyToTopLevel(s, k)) ELSE NoMatch

\* code_patterns[7]: (public\s+class\s+\w+.*?)(?=\n\S|\Z)
PatPublicClass(s, i) ==
  LET j == LitSpaces(s, i, Lit_public)
  IN IF j # 0 /\ LitSpacesName(s, j, Lit_class) # 0
     THEN Whole(i, LazyToTopLevel(s, LitSpacesName(s, j, Lit_class)))
     ELSE NoMatch

\* code_patterns[8]: (#include\s+[<"].*?[>"])
PatInclude(s, i) ==
  LET j == LitSpaces(s, i, Lit_include)
  IN IF j # 0 /\ (CharAt(s, j, 60) \/ CharAt(s, j, 34)) /\ FirstAt(s, j + 1, {62, 34}) # 0
     THEN Whole(i, FirstAt(s, j + 1, {62, 34}) + 1)
     ELSE NoMatch

\* code_patterns[9]: (print\s*\(.*?\))
PatPrint(s, i) ==
  LET j == LitOptSpacesChar(s, i, Lit_print, 40)
  IN IF j # 0 /\ FirstAt(s, j, {41}) # 0
     THEN Whole(i, FirstAt(s, j, {41}) + 1)
     ELSE NoMatch

\* code_patterns[10]: (return\s+.*?;)
PatReturn(s, i) ==
  IF LitSpaces(s, i, Lit_return) # 0 /\ FirstAt(s, i + 7, {59}) # 0
  THEN Whole(i, FirstAt(s, i + 7, {59}) + 1)
  ELSE NoMatch

NumPatterns == 10

\* the match of code_patterns[p] at position i
code_patterns(p, s, i) ==
  CASE p = 1 -> PatFenced(s, i)
    [] p = 2 -> PatInline(s, i)
    [] p = 3 -> PatDef(s, i)
    [] p = 4 -> PatImport(s, i)
    [] p = 5 -> PatKeywordName(s, i, Lit_class)
    [] p = 6 -> PatKeywordName(s, i, Lit_function)
    [] p = 7 -> PatPublicClass(s, i)
    [] p = 8 -> PatInclude(s, i)
    [] p = 9 -> PatPrint(s, i)
    [] OTHER -> PatReturn(s, i)

\* re.finditer(pattern, chunk): the group-1 texts of the leftmost
\* non-overlapping matches from position pos on
RECURSIVE FindIter(_, _, _)
FindIter(p, s, pos) ==
  IF \E i \in pos..Len(s) : code_patterns(p, s, i).e # 0
  THEN LET i == CHOOSE i \in pos..Len(s) :
                  code_patterns(p, s, i).e # 0
                  /\ \A j \in pos..(i - 1) : code_patterns(p, s, j).e = 0
           m == code_patterns(p, s, i)
       IN <<SubSeq(s, m.gs, m.ge - 1)>> \o FindIter(p, s, m.e)
  ELSE <<>>
\* --------------------------------------------------- _detect_language
\* line 178: def\s+\w+|import\s+|print\s*\(
RulePython(s) ==
  \E i \in 1..Len(s) :
    \/ LitSpacesName(s, i, Lit_def) # 0
    \/ LitSpaces(s, i, Lit_import) # 0
    \/ LitOptSpacesChar(s, i, Lit_print, 40) # 0

\* line 180: function\s+\w+|var\s+|let\s+|const\s+
RuleJavascript(s) ==
  \E i \in 1..Len(s) :
    \/ LitSpacesName(s, i, Lit_function) # 0
    \/ LitSpaces(s, i, Lit_var) # 0
    \/ LitSpaces(s, i, Lit_let) # 0
    \/ LitSpaces(s, i, Lit_const) # 0

\* line 182: public\s+class|System\.out|import\s+java
RuleJava(s) ==
  \E i \in 1..Len(s) :
    \/ LitSpacesLit(s, i, Lit_public, Lit_class)
    \/ LitAt(s, i, Lit_System_out)
    \/ LitSpacesLit(s, i, Lit_import, Lit_java)

\* line 184: #include\s+|int\s+main|printf\s*\(
RuleC(s) ==
  \E i \in 1..Len(s) :
    \/ LitSpaces(s, i, Lit_include) # 0
    \/ LitSpacesLit(s, i, Lit_int, Lit_main)
    \/ LitOptSpacesChar(s, i, Lit_printf, 40) # 0

\* line 186: <?php|echo\s+  (an optional '<', then php)
RulePhp(s) ==
  \E i \in 1..Len(s) :
    \/ LitAt(s, i, Lit_php)
    \/ LitSpaces(s, i, Lit_echo) # 0

\* line 188: def\s+\w+|puts\s+
RuleRuby(s) ==
  \E i \in 1..Len(s) :
    \/ LitSpacesName(s, i, Lit_def) # 0
    \/ LitSpaces(s, i, Lit_puts) # 0

detect_language(code_text) ==
  LET code_lower == Lower(code_text)
  IN IF RulePython(code_lower) THEN "python"
     ELSE IF RuleJavascript(code_lower) THEN "javascript"
     ELSE IF RuleJava(code_lower) THEN "java"
     ELSE IF RuleC(code_lower) THEN "c/c++"
     ELSE IF RulePhp(code_lower) THEN "php"
     ELSE IF RuleRuby(code_lower) THEN "ruby"
     ELSE "unknown"

\* ----------------------------------------- extract_code_blocks_from_pdf
\* line 162: def\s+\w+|function\s+\w+
HasFunctions(s) ==
  \E i \in 1..Len(s) :
    LitSpacesName(s, i, Lit_def) # 0 \/ LitSpacesName(s, i, Lit_function) # 0

\* line 163: import\s+|#include\s+
HasImports(s) ==
  \E i \in 1..Len(s) :
    LitSpaces(s, i, Lit_import) # 0 \/ LitSpaces(s, i, Lit_include) # 0

\* len(code_text.split('\n'))
CountLines(s) == Cardinality({i \in 1..Len(s) : s[i] = 10}) + 1

\* line 149
IsSignificant(code_text) == Len(Strip(code_text)) > 10

\* the dictionary of lines 154-165
CodeBlock(code_text, page, chunk_id, book) ==
  [page |-> page,
   chunk_id |-> chunk_id,
   code |-> Strip(code_text),
   language |-> detect_language(code_text),
   line_count |-> CountLines(code_text),
   char_count |-> Len(code_text),
   has_functions |-> HasFunctions(code_text),
   has_imports |-> HasImports(code_text),
   book_name |-> book]

\* lines 147-165 for one pattern: the blocks of its significant matches
PatternBlocks(p, chunk, page, chunk_id, book) ==
  LET cands == SelectSeq(FindIter(p, chunk, 1), IsSignificant)
  IN [k \in 1..Len(cands) |-> CodeBlock(cands[k], page, chunk_id, book)]

\* lines 145-165: the patterns in order, from pattern p on
RECURSIVE ChunkBlocks(_, _, _, _, _)
ChunkBlocks(p, chunk, page, chunk_id, book) ==
  IF p > NumPatterns THEN <<>>
  ELSE PatternBlocks(p, chunk, page, chunk_id, book)
       \o ChunkBlocks(p + 1, chunk, page, chunk_id, book)

CodeChunkSize == 1000

\* lines 139-165 for one page: the chunks in order, from chunk k on
RECURSIVE PageChunkBlocks(_, _, _, _)
PageChunkBlocks(chunks, k, page, book) ==
  IF k > Len(chunks) THEN <<>>
  ELSE ChunkBlocks(1, chunks[k], page, k - 1, book)
       \o PageChunkBlocks(chunks, k + 1, page, book)

PageCodeBlocks(text, page, book) ==
  PageChunkBlocks(split_text_into_chunks(text, CodeChunkSize), 1, page, book)

\* ---------------------------------------------- extract_text_from_pdf
TextChunkSize == 500

\* the dictionary of lines 56-64; chunk_id is the 0-based index in the page
TextChunk(chunk, page, chunk_id, book) ==
  [page |-> page,
   chunk_id |-> chunk_id,
   text |-> Strip(chunk),
   word_count |-> Len(Split(chunk)),
   char_count |-> Len(chunk),
   book_name |-> book]

\* lines 52-64 for one page: the chunks that are not empty once stripped
RECURSIVE PageChunkRecords(_, _, _, _)
PageChunkRecords(chunks, k, page, book) ==
  IF k > Len(chunks) THEN <<>>
  ELSE (IF Strip(chunks[k]) # <<>>
        THEN <<TextChunk(chunks[k], page, k - 1, book)>> ELSE <<>>)
       \o PageChunkRecords(chunks, k + 1, page, book)

PageTextChunks(text, page, book) ==
  PageChunkRecords(split_text_into_chunks(text, TextChunkSize), 1, page, book)
\* ------------------------------------------------------------ the folder
\* the files a books folder may hold: name, document metadata, version and size,
\* and per page the text and the images (n - alpha channels, alpha, decodable or not)
Files ==
  <<
    \* 'a.pdf'
    [name |-> <<97, 46, 112, 100, 102>>, title |-> "T1", version |-> "1.4", file_size |-> 100,
     pages |-> <<
        \* 'hello world'
        [text |-> <<104, 101, 108, 108, 111, 32, 119, 111, 114, 108, 100>>,
         images |-> <<[chan |-> 3, alpha |-> 0, bad |-> FALSE]>>]
     >>],
    \* 'B.pdf'
    [name |-> <<66, 46, 112, 100, 102>>, title |-> "T2", version |-> "unknown", file_size |-> 200,
     pages |-> <<
        \* 'def run(x): return x + 1;'
        [text |-> <<100, 101, 102, 32, 114, 117, 110, 40, 120, 41, 58, 32, 114, 101, 116, 117, 114, 110, 32, 120, 32, 43, 32, 49, 59>>,
         images |-> <<[chan |-> 4, alpha |-> 0, bad |-> FALSE], [chan |-> 3, alpha |-> 1, bad |-> TRUE]>>],
        \* 'see `print(total)` now'
        [text |-> <<115, 101, 101, 32, 96, 112, 114, 105, 110, 116, 40, 116, 111, 116, 97, 108, 41, 96, 32, 110, 111, 119>>,
         images |-> <<[chan |-> 1, alpha |-> 1, bad |-> FALSE]>>]
     >>],
    \* 'a.PDF'
    [name |-> <<97, 46, 80, 68, 70>>, title |-> "", version |-> "1.7", file_size |-> 300,
     pages |-> <<
        \* 'alpha beta gamma'
        [text |-> <<97, 108, 112, 104, 97, 32, 98, 101, 116, 97, 32, 103, 97, 109, 109, 97>>,
         images |-> <<>>]
     >>],
    \* 'a.pdf.pdf'
    [name |-> <<97, 46, 112, 100, 102, 46, 112, 100, 102>>, title |-> "T4", version |-> "1.4", file_size |-> 400,
     pages |-> <<
        \* 'one two'
        [text |-> <<111, 110, 101, 32, 116, 119, 111>>,
         images |-> <<[chan |-> 3, alpha |-> 0, bad |-> FALSE]>>],
        \* '  \n '
        [text |-> <<32, 32, 10, 32>>,
         images |-> <<>>]
     >>],
    \* 'notes.txt'
    [name |-> <<110, 111, 116, 101, 115, 46, 116, 120, 116>>, title |-> "", version |-> "unknown", file_size |-> 50,
     pages |-> <<

     >>]
  >>

FileNames == {Files[k].name : k \in 1..Len(Files)}

FileOf(name) == Files[CHOOSE k \in 1..Len(Files) : Files[k].name = name]

\* '.pdf'
Lit_pdf == <<46, 112, 100, 102>>

\* ---------------------------------------------------------- get_pdf_files
\* line 36: file.lower().endswith('.pdf')
IsPdfFile(file) == LitAt(Lower(file), Len(file) - 3, Lit_pdf)

\* the comparison of a sort with key=str.lower
StrLessMut(a, b) ==
  \E k \in 1..(Len(a) + 1) :
    /\ k <= Len(b)
    /\ \A j \in 1..(k - 1) : LowerChar(a[j]) = LowerChar(b[j])
    /\ (k = Len(a) + 1 \/ LowerChar(a[k]) < LowerChar(b[k]))

\* a < b on str: lexicographic on code points
StrLess(a, b) ==
  \E k \in 1..(Len(a) + 1) :
    /\ k <= Len(b)
    /\ \A j \in 1..(k - 1) : a[j] = b[j]
    /\ (k = Len(a) + 1 \/ a[k] < b[k])

\* sorted(names) for distinct names
RECURSIVE Sorted(_)
Sorted(names) ==
  IF names = {} THEN <<>>
  ELSE LET m == CHOOSE x \in names : \A y \in names \ {x} : ~StrLess(y, x)
       IN <<m>> \o Sorted(names \ {m})

get_pdf_files(names) == Sorted({file \in names : IsPdfFile(file)})

\* ------------------------------------------------------ process_single_pdf
\* pdf_file.replace('.pdf', ''): every occurrence removed, left to right
RECURSIVE RemovePdf(_, _)
RemovePdf(s, k) ==
  IF k > Len(s) THEN <<>>
  ELSE IF LitAt(s, k, Lit_pdf) THEN RemovePdf(s, k + 4)
  ELSE <<s[k]>> \o RemovePdf(s, k + 1)

BookName(pdf_file) == RemovePdf(pdf_file, 1)

RECURSIVE SumSeq(_)
SumSeq(ns) == IF ns = <<>> THEN 0 ELSE ns[1] + SumSeq(Tail(ns))

\* ------------------------------------------------------ the four phases
\* lines 220-231
DocMetadata(f, name) ==
  [title |-> f.title, pages |-> Len(f.pages), file_size |-> f.file_size,
   pdf_version |-> f.version, book_name |-> name]

\* lines 238-249
DefaultMetadata(name) ==
  [title |-> "", pages |-> 0, file_size |-> 0, pdf_version |-> "unknown",
   book_name |-> name]

\* lines 47-64: the pages in ascending order, from page p on
RECURSIVE DocTextChunks(_, _, _)
DocTextChunks(f, p, name) ==
  IF p > Len(f.pages) THEN <<>>
  ELSE PageTextChunks(f.pages[p].text, p, name) \o DocTextChunks(f, p + 1, name)

\* lines 84-109 for one page: an image that fails to decode is omitted, one
\* with 4 or more non-alpha channels is not recorded
RECURSIVE PageImages(_, _, _, _)
PageImages(imgs, k, p, name) ==
  IF k > Len(imgs) THEN <<>>
  ELSE (IF ~imgs[k].bad /\ imgs[k].chan < 4
        THEN <<[page |-> p, image_index |-> k - 1, has_alpha |-> imgs[k].alpha > 0,
                book_name |-> name]>>
        ELSE <<>>)
       \o PageImages(imgs, k + 1, p, name)

\* lines 80-109
RECURSIVE DocImages(_, _, _)
DocImages(f, p, name) ==
  IF p > Len(f.pages) THEN <<>>
  ELSE PageImages(f.pages[p].images, 1, p, name) \o DocImages(f, p + 1, name)

\* lines 137-165
RECURSIVE DocCodeBlocks(_, _, _)
DocCodeBlocks(f, p, name) ==
  IF p > Len(f.pages) THEN <<>>
  ELSE PageCodeBlocks(f.pages[p].text, p, name) \o DocCodeBlocks(f, p + 1, name)

\* what a phase can meet on a file: fitz.open fails, or the document opens
\* and either everything is read or a read raises
Outcomes(file) ==
  IF file \in unreadable THEN {"open_error"}
  ELSE {"ok"} \cup (IF errs < MaxErrors THEN {"read_error"} ELSE {})

\* a phase without its except clause
PhaseCatchesMut(outcome) == outcome = "ok"

\* the except Exception clauses of lines 69, 114, 170 and 236 catch every error
PhaseCatches(outcome) == TRUE

\* the value each phase returns, by what it met
extract_metadata_from_pdf(f, name, outcome) ==
  IF outcome = "ok" THEN DocMetadata(f, name) ELSE DefaultMetadata(name)

extract_text_from_pdf(f, name, outcome) ==
  IF outcome = "ok" THEN DocTextChunks(f, 1, name) ELSE <<>>

extract_images_from_pdf(f, name, outcome) ==
  IF outcome = "ok" THEN DocImages(f, 1, name) ELSE <<>>

extract_code_blocks_from_pdf(f, name, outcome) ==
  IF outcome = "ok" THEN DocCodeBlocks(f, 1, name) ELSE <<>>

\* the "summary" entry with total_words counting the chunks
BookSummaryMut(meta, chunks, imgs, blocks) ==
  [total_pages |-> meta.pages,
   total_text_chunks |-> Len(chunks),
   total_images |-> Len(imgs),
   total_code_blocks |-> Len(blocks),
   total_words |-> Len(chunks),
   total_characters |-> SumSeq([k \in 1..Len(chunks) |-> chunks[k].char_count])]

\* the "summary" entry of lines 279-286
BookSummary(meta, chunks, imgs, blocks) ==
  [total_pages |-> meta.pages,
   total_text_chunks |-> Len(chunks),
   total_images |-> Len(imgs),
   total_code_blocks |-> Len(blocks),
   total_words |-> SumSeq([k \in 1..Len(chunks) |-> chunks[k].word_count]),
   total_characters |-> SumSeq([k \in 1..Len(chunks) |-> chunks[k].char_count])]

HasBook(bs, name) == \E k \in 1..Len(bs) : bs[k].name = name

BookAt(bs, name) == bs[CHOOSE k \in 1..Len(bs) : bs[k].name = name].data

\* processed_data["books"][name] = data: a new key goes last, an existing key
\* keeps its place
SetBook(bs, name, data) ==
  IF HasBook(bs, name)
  THEN [k \in 1..Len(bs) |-> IF bs[k].name = name THEN [name |-> name, data |-> data] ELSE bs[k]]
  ELSE Append(bs, [name |-> name, data |-> data])

\* lines 465-475: the first candidate directory that exists, 0 when none does
ResolveBooksDir(exists) ==
  IF \E c \in 1..3 : exists[c] THEN CHOOSE c \in 1..3 : exists[c] /\ \A d \in 1..(c - 1) : ~exists[d]
  ELSE 0

ZeroSummary ==
  [total_books |-> 0, total_pages |-> 0, total_text_chunks |-> 0, total_images |-> 0,
   total_code_blocks |-> 0, total_words |-> 0, total_characters |-> 0]

NoLocals ==
  /\ book_name = <<>>
  /\ metadata = DefaultMetadata(<<>>)
  /\ text_chunks = <<>>
  /\ images = <<>>
  /\ code_blocks = <<>>

FnIdle ==
  /\ fn_pc = "idle"
  /\ fn_text = <<>>
  /\ fn_size = 0
  /\ fn_chunks = <<>>
  /\ fn_lang = ""
  /\ fn_blocks = <<>>

\* the state when main starts: a folder of at most MaxFiles names, at most
\* MaxUnreadable of its PDF files unreadable
Init ==
  /\ FnIdle
  /\ pc = "main"
  /\ listing \in {ns \in SUBSET FileNames : Cardinality(ns) <= MaxFiles}
  /\ unreadable \in {us \in SUBSET {f \in listing : IsPdfFile(f)} : Cardinality(us) <= MaxUnreadable}
  /\ pdf_files = <<>>
  /\ file_index = 0
  /\ processed = <<>>
  /\ NoLocals
  /\ errors_logged = {}
  /\ skipped = <<>>
  /\ books = <<>>
  /\ summary = ZeroSummary
  /\ open_docs = 0
  /\ errs = 0
  /\ rag_data = [text_chunks |-> <<>>, images |-> <<>>, code_blocks |-> <<>>, summary |-> ZeroSummary]
  /\ written = <<>>

\* main, lines 449-482
Main ==
  /\ pc = "main"
  /\ \E exists \in [1..3 -> BOOLEAN] :
       pc' = IF ResolveBooksDir(exists) = 0 THEN "exit" ELSE "process_all_pdfs"
  /\ UNCHANGED <<listing, unreadable, pdf_files, file_index, processed, locals, errors_logged,
                 skipped, books, summary, open_docs, errs, rag_data, written>>
  /\ UNCHANGED fnVars

\* process_all_pdfs, lines 293-299
GetPdfFiles ==
  /\ pc = "process_all_pdfs"
  /\ pdf_files' = get_pdf_files(listing)
  /\ file_index' = 1
  /\ pc' = "loop"
  /\ UNCHANGED <<listing, unreadable, processed, locals, errors_logged, skipped, books,
                 summary, open_docs, errs, rag_data, written>>
  /\ UNCHANGED fnVars

\* lines 301-302 and 253-256: the next file enters process_single_pdf
BeginBook ==
  /\ pc = "loop"
  /\ file_index <= Len(pdf_files)
  /\ processed' = Append(processed, pdf_files[file_index])
  /\ book_name' = BookName(pdf_files[file_index])
  /\ metadata' = DefaultMetadata(<<>>)
  /\ text_chunks' = <<>>
  /\ images' = <<>>
  /\ code_blocks' = <<>>
  /\ errors_logged' = {}
  /\ pc' = "metadata"
  /\ UNCHANGED <<listing, unreadable, pdf_files, file_index, skipped, books, summary, open_docs,
                 errs, rag_data, written>>
  /\ UNCHANGED fnVars

\* what a phase does besides returning its value.  A read error leaves the
\* document without a close() call (lines 66, 111, 167 and 233 are skipped);
\* whether the collaborator's finalizer has closed it by then is not decided by
\* this code (finalized).  An error the phase does not catch reaches the
\* handler of lines 321-323, which goes on with the next file.
PhaseStep(phase, outcome, finalized, next) ==
  /\ errs' = IF outcome = "read_error" THEN errs + 1 ELSE errs
  /\ open_docs' = IF outcome = "read_error" /\ ~finalized THEN open_docs + 1 ELSE open_docs
  /\ IF PhaseCatches(outcome)
     THEN /\ errors_logged' = IF outcome = "ok" THEN errors_logged ELSE errors_logged \cup {phase}
          /\ pc' = next
          /\ UNCHANGED <<file_index, skipped>>
     ELSE /\ skipped' = Append(skipped, pdf_files[file_index])
          /\ file_index' = file_index + 1
          /\ pc' = "loop"
          /\ UNCHANGED errors_logged
  /\ UNCHANGED <<listing, unreadable, pdf_files, processed, book_name, books, summary,
                 rag_data, written>>
  /\ UNCHANGED fnVars

Finalizer(outcome) == IF outcome = "read_error" THEN BOOLEAN ELSE {FALSE}

\* line 259
ExtractMetadata ==
  /\ pc = "metadata"
  /\ \E outcome \in Outcomes(pdf_files[file_index]) : \E finalized \in Finalizer(outcome) :
       /\ metadata' = IF PhaseCatches(outcome)
                      THEN extract_metadata_from_pdf(FileOf(pdf_files[file_index]), book_name, outcome)
                      ELSE metadata
       /\ PhaseStep("metadata", outcome, finalized, "text")
  /\ UNCHANGED <<text_chunks, images, code_blocks>>

\* line 262
ExtractText ==
  /\ pc = "text"
  /\ \E outcome \in Outcomes(pdf_files[file_index]) : \E finalized \in Finalizer(outcome) :
       /\ text_chunks' = IF PhaseCatches(outcome)
                         THEN extract_text_from_pdf(FileOf(pdf_files[file_index]), book_name, outcome)
                         ELSE text_chunks
       /\ PhaseStep("text", outcome, finalized, "images")
  /\ UNCHANGED <<metadata, images, code_blocks>>

\* line 266
ExtractImages ==
  /\ pc = "images"
  /\ \E outcome \in Outcomes(pdf_files[file_index]) : \E finalized \in Finalizer(outcome) :
       /\ images' = IF PhaseCatches(outcome)
                    THEN extract_images_from_pdf(FileOf(pdf_files[file_index]), book_name, outcome)
                    ELSE images
       /\ PhaseStep("images", outcome, finalized, "code")
  /\ UNCHANGED <<metadata, text_chunks, code_blocks>>

\* line 270
ExtractCode ==
  /\ pc = "code"
  /\ \E outcome \in Outcomes(pdf_files[file_index]) : \E finalized \in Finalizer(outcome) :
       /\ code_blocks' = IF PhaseCatches(outcome)
                         THEN extract_code_blocks_from_pdf(FileOf(pdf_files[file_index]), book_name, outcome)
                         ELSE code_blocks
       /\ PhaseStep("code", outcome, finalized, "store")
  /\ UNCHANGED <<metadata, text_chunks, images>>

\* lines 274-289
StoreBook ==
  /\ pc = "store"
  /\ books' = SetBook(books, book_name,
                      [metadata |-> metadata, text_chunks |-> text_chunks,
                       images |-> images, code_blocks |-> code_blocks,
                       summary |-> BookSummary(metadata, text_chunks, images, code_blocks)])
  /\ pc' = "merge"
  /\ UNCHANGED <<listing, unreadable, pdf_files, file_index, processed, locals, errors_logged,
                 skipped, summary, open_docs, errs, rag_data, written>>
  /\ UNCHANGED fnVars

\* lines 305-319: the counts process_single_pdf returned are added
UpdateSummary ==
  /\ pc = "merge"
  /\ LET name == BookName(pdf_files[file_index])
         pages == IF HasBook(books, name) THEN BookAt(books, name).metadata.pages ELSE 0
     IN summary' = [summary EXCEPT !.total_books = @ + 1,
                                   !.total_text_chunks = @ + Len(text_chunks),
                                   !.total_images = @ + Len(images),
                                   !.total_code_blocks = @ + Len(code_blocks),
                                   !.total_pages = @ + pages]
  /\ file_index' = file_index + 1
  /\ pc' = "loop"
  /\ UNCHANGED <<listing, unreadable, pdf_files, processed, locals, errors_logged, skipped,
                 books, open_docs, errs, rag_data, written>>
  /\ UNCHANGED fnVars

\* lines 325-345: the final pass over the books, then print_summary, whose
\* line 360 divides by total_books; the ZeroDivisionError leaves
\* process_all_pdfs and is caught by main at lines 499-500
FinishAll ==
  /\ pc = "loop"
  /\ file_index > Len(pdf_files)
  /\ summary' = [summary EXCEPT
       !.total_words = SumSeq([k \in 1..Len(books) |-> books[k].data.summary.total_words]),
       !.total_characters = SumSeq([k \in 1..Len(books) |-> books[k].data.summary.total_characters])]
  /\ pc' = IF summary.total_books = 0 THEN "done" ELSE "save"
  /\ UNCHANGED <<listing, unreadable, pdf_files, file_index, processed, locals, errors_logged,
                 skipped, books, open_docs, errs, rag_data, written>>
  /\ UNCHANGED fnVars

\* line 489 and lines 382-386
SaveProcessedData ==
  /\ pc = "save"
  /\ written' = Append(written, "all_books_data.json")
  /\ pc' = "rag"
  /\ UNCHANGED <<listing, unreadable, pdf_files, file_index, processed, locals, errors_logged,
                 skipped, books, summary, open_docs, errs, rag_data>>
  /\ UNCHANGED fnVars

\* the loops of lines 399-409, 412-426 and 429-442: the items of every book,
\* book after book in the order of the mapping
FlattenTextChunks(bs) == ConcatAll([k \in 1..Len(bs) |-> bs[k].data.text_chunks])

FlattenImages(bs) == ConcatAll([k \in 1..Len(bs) |-> bs[k].data.images])

FlattenCodeBlocks(bs) == ConcatAll([k \in 1..Len(bs) |-> bs[k].data.code_blocks])

\* line 492 and lines 388-447
CreateRagReadyData ==
  /\ pc = "rag"
  /\ rag_data' = [text_chunks |-> FlattenTextChunks(books),
                  images |-> FlattenImages(books),
                  code_blocks |-> FlattenCodeBlocks(books),
                  summary |-> summary]
  /\ written' = Append(written, "rag_ready_data.json")
  /\ pc' = "done"
  /\ UNCHANGED <<listing, unreadable, pdf_files, file_index, processed, locals, errors_logged,
                 skipped, books, summary, open_docs, errs>>
  /\ UNCHANGED fnVars

Next ==
  \/ Main
  \/ GetPdfFiles
  \/ BeginBook
  \/ ExtractMetadata
  \/ ExtractText
  \/ ExtractImages
  \/ ExtractCode
  \/ StoreBook
  \/ UpdateSummary
  \/ FinishAll
  \/ SaveProcessedData
  \/ CreateRagReadyData

Spec == Init /\ [][Next]_vars

\* ------------------------------------------------- chunker specification
\* no run of main
RunIdle ==
  /\ pc = "idle"
  /\ listing = {}
  /\ unreadable = {}
  /\ pdf_files = <<>>
  /\ file_index = 0
  /\ processed = <<>>
  /\ NoLocals
  /\ errors_logged = {}
  /\ skipped = <<>>
  /\ books = <<>>
  /\ summary = ZeroSummary
  /\ open_docs = 0
  /\ errs = 0
  /\ rag_data = [text_chunks |-> <<>>, images |-> <<>>, code_blocks |-> <<>>, summary |-> ZeroSummary]
  /\ written = <<>>

\* the characters of the chunker inputs: a, b, space, newline
ChunkAlphabet == {97, 98, 32, 10}

TextsUpTo(n) == UNION {[1..m -> ChunkAlphabet] : m \in 0..n}

InitChunker ==
  /\ fn_pc = "ready"
  /\ fn_text \in TextsUpTo(MaxTextLen)
  /\ fn_size \in 0..MaxTarget
  /\ fn_chunks = <<>>
  /\ fn_lang = ""
  /\ fn_blocks = <<>>
  /\ RunIdle

CallSplit ==
  /\ fn_pc = "ready"
  /\ fn_chunks' = split_text_into_chunks(fn_text, fn_size)
  /\ fn_pc' = "done"
  /\ UNCHANGED <<fn_text, fn_size, fn_lang, fn_blocks>>
  /\ UNCHANGED runVars

NextChunker == CallSplit

SpecChunker == InitChunker /\ [][NextChunker]_vars

\* ------------------------------------------------ detector specification
\* pieces of page text; an input is up to MaxFrags of them in a row
Frags ==
  <<
    \* 1: '`0123456789`'
    <<96, 48, 49, 50, 51, 52, 53, 54, 55, 56, 57, 96>>,
    \* 2: '`0123456789a`'
    <<96, 48, 49, 50, 51, 52, 53, 54, 55, 56, 57, 97, 96>>,
    \* 3: '` hello world foo `'
    <<96, 32, 104, 101, 108, 108, 111, 32, 119, 111, 114, 108, 100, 32, 102, 111, 111, 32, 96>>,
    \* 4: 'import os, sys = 1 '
    <<105, 109, 112, 111, 114, 116, 32, 111, 115, 44, 32, 115, 121, 115, 32, 61, 32, 49, 32>>,
    \* 5: 'def foo(): puts "x"'
    <<100, 101, 102, 32, 102, 111, 111, 40, 41, 58, 32, 112, 117, 116, 115, 32, 34, 120, 34>>,
    \* 6: 'def foo():\nputs "x"'
    <<100, 101, 102, 32, 102, 111, 111, 40, 41, 58, 10, 112, 117, 116, 115, 32, 34, 120, 34>>,
    \* 7: 'system.out.println(1); '
    <<115, 121, 115, 116, 101, 109, 46, 111, 117, 116, 46, 112, 114, 105, 110, 116, 108, 110, 40, 49, 41, 59, 32>>,
    \* 8: 'System.out'
    <<83, 121, 115, 116, 101, 109, 46, 111, 117, 116>>,
    \* 9: 'print ("hello there") '
    <<112, 114, 105, 110, 116, 32, 40, 34, 104, 101, 108, 108, 111, 32, 116, 104, 101, 114, 101, 34, 41, 32>>,
    \* 10: 'return some_value; '
    <<114, 101, 116, 117, 114, 110, 32, 115, 111, 109, 101, 95, 118, 97, 108, 117, 101, 59, 32>>,
    \* 11: '#include <stdio.h> '
    <<35, 105, 110, 99, 108, 117, 100, 101, 32, 60, 115, 116, 100, 105, 111, 46, 104, 62, 32>>,
    \* 12: 'class Foo extends Bar '
    <<99, 108, 97, 115, 115, 32, 70, 111, 111, 32, 101, 120, 116, 101, 110, 100, 115, 32, 66, 97, 114, 32>>,
    \* 13: 'function go(a, b) '
    <<102, 117, 110, 99, 116, 105, 111, 110, 32, 103, 111, 40, 97, 44, 32, 98, 41, 32>>,
    \* 14: 'public class Main '
    <<112, 117, 98, 108, 105, 99, 32, 99, 108, 97, 115, 115, 32, 77, 97, 105, 110, 32>>,
    \* 15: '```py\nx = compute(1)\n```'
    <<96, 96, 96, 112, 121, 10, 120, 32, 61, 32, 99, 111, 109, 112, 117, 116, 101, 40, 49, 41, 10, 96, 96, 96>>,
    \* 16: ' php '
    <<32, 112, 104, 112, 32>>,
    \* 17: 'echo hi '
    <<101, 99, 104, 111, 32, 104, 105, 32>>,
    \* 18: 'var x '
    <<118, 97, 114, 32, 120, 32>>,
    \* 19: 'int main '
    <<105, 110, 116, 32, 109, 97, 105, 110, 32>>,
    \* 20: ' '
    <<32>>,
    \* 21: 'puts me '
    <<112, 117, 116, 115, 32, 109, 101, 32>>
  >>

FragSeqs == UNION {[1..m -> 1..Len(Frags)] : m \in 0..MaxFrags}

InitDetector ==
  /\ fn_pc = "ready"
  /\ \E fs \in FragSeqs : fn_text = ConcatAll([k \in 1..Len(fs) |-> Frags[fs[k]]])
  /\ fn_size = 0
  /\ fn_chunks = <<>>
  /\ fn_lang = ""
  /\ fn_blocks = <<>>
  /\ RunIdle

CallDetectLanguage ==
  /\ fn_pc = "ready"
  /\ fn_lang' = detect_language(fn_text)
  /\ fn_pc' = "lang_done"
  /\ UNCHANGED <<fn_text, fn_size, fn_chunks, fn_blocks>>
  /\ UNCHANGED runVars

\* the code-detection pass over one page whose text is fn_text
CallDetectCode ==
  /\ fn_pc = "ready"
  /\ fn_blocks' = PageCodeBlocks(fn_text, 1, <<97>>)
  /\ fn_pc' = "code_done"
  /\ UNCHANGED <<fn_text, fn_size, fn_chunks, fn_lang>>
  /\ UNCHANGED runVars

NextDetector == CallDetectLanguage \/ CallDetectCode

SpecDetector == InitDetector /\ [][NextDetector]_vars

\* ------------------------------------------------------------- the chunker
\* chunk.split(' '): split on every single space
RECURSIVE SplitOnSpaceFrom(_, _, _, _)
SplitOnSpaceFrom(s, i, cur, acc) ==
  IF i > Len(s) THEN Append(acc, cur)
  ELSE IF s[i] = 32 THEN SplitOnSpaceFrom(s, i + 1, <<>>, Append(acc, cur))
       ELSE SplitOnSpaceFrom(s, i + 1, Append(cur, s[i]), acc)

SplitOnSpace(s) == SplitOnSpaceFrom(s, 1, <<>>, <<>>)

\* the words of the input, written without str.split(): the maximal runs of
\* non-whitespace characters, left to right
IsWordRun(s, a, b) ==
  /\ a <= b
  /\ \A i \in a..b : ~IsSpace(s[i])
  /\ (a = 1 \/ IsSpace(s[a - 1]))
  /\ (b = Len(s) \/ IsSpace(s[b + 1]))

WordStarts(s) == {a \in 1..Len(s) : \E b \in a..Len(s) : IsWordRun(s, a, b)}

\* C4: splitting each returned chunk on single spaces and concatenating in
\* chunk order gives exactly the input's words, in order; no chunk is empty;
\* an input without words gives no chunk.
ChunkerRoundTrip ==
  fn_pc = "done" =>
    LET back == ConcatAll([i \in 1..Len(fn_chunks) |-> SplitOnSpace(fn_chunks[i])])
    IN /\ Len(back) = Cardinality(WordStarts(fn_text))
       /\ \A k \in 1..Len(back) :
            \E a \in WordStarts(fn_text) :
              /\ Cardinality({x \in WordStarts(fn_text) : x < a}) = k - 1
              /\ IsWordRun(fn_text, a, a + Len(back[k]) - 1)
              /\ back[k] = SubSeq(fn_text, a, a + Len(back[k]) - 1)
       /\ \A i \in 1..Len(fn_chunks) : fn_chunks[i] # <<>>
       /\ ((\A i \in 1..Len(fn_text) : IsSpace(fn_text[i])) => fn_chunks = <<>>)

\* several chunks, one of them with two words, and a newline in the input
ChunkerRoundTripWitness ==
  /\ fn_pc = "done"
  /\ Len(fn_chunks) >= 2
  /\ \E i \in 1..Len(fn_chunks) : \E j \in 1..Len(fn_chunks[i]) : fn_chunks[i][j] = 32
  /\ \E i \in 1..Len(fn_text) : fn_text[i] = 10

\* C5: a chunk longer than target_size is a single word longer than
\* target_size, and a word longer than target_size is a chunk by itself.
ChunkerSizeBound ==
  fn_pc = "done" =>
    /\ \A i \in 1..Len(fn_chunks) :
         Len(fn_chunks[i]) > fn_size => Len(SplitOnSpace(fn_chunks[i])) = 1
    /\ \A i \in 1..Len(fn_chunks) :
         \A w \in {SplitOnSpace(fn_chunks[i])[j] : j \in 1..Len(SplitOnSpace(fn_chunks[i]))} :
           Len(w) > fn_size => fn_chunks[i] = w

\* a word longer than target_size between two shorter words, cut into three
ChunkerSizeBoundWitness ==
  /\ fn_pc = "done"
  /\ Len(fn_chunks) = 3
  /\ Len(fn_chunks[2]) > fn_size
  /\ Len(fn_chunks[1]) <= fn_size
\* ------------------------------------------------------------ the detector
\* 'system.out'
Lit_system_out == <<115, 121, 115, 116, 101, 109, 46, 111, 117, 116>>

\* '<?php'
Lit_lt_php == <<60, 63, 112, 104, 112>>
\* the java rule with the cue system.out
StatedRuleJava(s) ==
  \E k \in 1..Len(s) :
    \/ LitSpacesLit(s, k, Lit_public, Lit_class)
    \/ LitAt(s, k, Lit_system_out)
    \/ LitSpacesLit(s, k, Lit_import, Lit_java)

\* the php rule with the cue <?php
StatedRulePhp(s) ==
  \E k \in 1..Len(s) : LitAt(s, k, Lit_lt_php) \/ LitSpaces(s, k, Lit_echo) # 0

StatedLanguage(code_text) ==
  LET code_lower == Lower(code_text)
  IN IF RulePython(code_lower) THEN "python"
     ELSE IF RuleJavascript(code_lower) THEN "javascript"
     ELSE IF StatedRuleJava(code_lower) THEN "java"
     ELSE IF RuleC(code_lower) THEN "c/c++"
     ELSE IF StatedRulePhp(code_lower) THEN "php"
     ELSE IF RuleRuby(code_lower) THEN "ruby"
     ELSE "unknown"

\* C6: _detect_language returns the language of the first rule, in the order
\* python, javascript, java, c_cpp, php, ruby, that has a cue in the lowercased
\* text, else unknown; system.out is a java cue and <?php a php cue.
LanguageAsStated == fn_pc = "lang_done" => fn_lang = StatedLanguage(fn_text)

\* the candidates of the code-detection pass over a page: every group-1 text,
\* chunk after chunk, pattern after pattern
PageCandidates(text) ==
  LET chunks == split_text_into_chunks(text, CodeChunkSize)
  IN ConcatAll([c \in 1..Len(chunks) |->
       ConcatAll([p \in 1..NumPatterns |-> FindIter(p, chunks[c], 1)])])

\* C9: the stored code is the trimmed candidate, line_count and char_count are
\* the number of lines and the length of that stored text, and the candidates
\* emitted are those of trimmed length above 10.
CodeBlockCounts ==
  fn_pc = "code_done" =>
    LET kept == SelectSeq(PageCandidates(fn_text), LAMBDA c : Len(Strip(c)) > 10)
    IN /\ Len(fn_blocks) = Len(kept)
       /\ \A k \in 1..Len(fn_blocks) :
            /\ fn_blocks[k].code = Strip(kept[k])
            /\ fn_blocks[k].char_count = Len(fn_blocks[k].code)
            /\ fn_blocks[k].line_count
                 = Cardinality({n \in 1..Len(fn_blocks[k].code) : fn_blocks[k].code[n] = 10}) + 1

\* ------------------------------------------------------------- the run
AfterProcessAll == pc \in {"save", "rag", "done"}

InSingle == pc \in {"metadata", "text", "images", "code", "store", "merge"}

\* a file name without its last four characters
SuffixRemoved(file) == SubSeq(file, 1, Len(file) - 4)

\* C1: a file that cannot be opened never has its book name among the keys of
\* the books mapping and is not counted in total_books: after the run the
\* mapping and total_books count the PDF files that could be opened.
SkipOnFailure ==
  /\ \A file \in unreadable : ~HasBook(books, SuffixRemoved(file))
  /\ AfterProcessAll =>
       /\ Len(books) = Len(pdf_files) - Cardinality(unreadable)
       /\ summary.total_books = Len(pdf_files) - Cardinality(unreadable)

\* C2: after process_all_pdfs, total_books is the number of entries of the
\* books mapping, the four other counters are the sums of the per-book summary
\* values over the entries, and every processed file has its record under its
\* name without the .pdf suffix.
AdditiveCounters ==
  AfterProcessAll =>
    /\ summary.total_books = Len(books)
    /\ summary.total_pages = SumSeq([k \in 1..Len(books) |-> books[k].data.summary.total_pages])
    /\ summary.total_text_chunks =
         SumSeq([k \in 1..Len(books) |-> books[k].data.summary.total_text_chunks])
    /\ summary.total_images = SumSeq([k \in 1..Len(books) |-> books[k].data.summary.total_images])
    /\ summary.total_code_blocks =
         SumSeq([k \in 1..Len(books) |-> books[k].data.summary.total_code_blocks])
    /\ \A n \in 1..Len(processed) :
         /\ HasBook(books, SuffixRemoved(processed[n]))
         /\ BookAt(books, SuffixRemoved(processed[n])).metadata.book_name
              = SuffixRemoved(processed[n])

\* the number of text chunks of the books before book k
ChunksBefore(k) == SumSeq([m \in 1..(k - 1) |-> Len(books[m].data.text_chunks)])

\* C3: once both views are built, total_words is the sum of word_count over
\* the flattened text_chunks and over the text chunks of the books, and the
\* flattened list is the books' chunks, book after book, each in its order.
AggregationAgreement ==
  (pc = "done" /\ written # <<>>) =>
    /\ summary.total_words
         = SumSeq([n \in 1..Len(rag_data.text_chunks) |-> rag_data.text_chunks[n].word_count])
    /\ rag_data.summary.total_words = summary.total_words
    /\ summary.total_words
         = SumSeq([k \in 1..Len(books) |->
             SumSeq([n \in 1..Len(books[k].data.text_chunks) |->
                       books[k].data.text_chunks[n].word_count])])
    /\ Len(rag_data.text_chunks) = ChunksBefore(Len(books) + 1)
    /\ \A k \in 1..Len(books) : \A n \in 1..Len(books[k].data.text_chunks) :
         rag_data.text_chunks[ChunksBefore(k) + n] = books[k].data.text_chunks[n]

\* two books or more with text, one of them with several chunks
AggregationAgreementWitness ==
  /\ pc = "done"
  /\ written # <<>>
  /\ Len(books) >= 2
  /\ \E k \in 1..Len(books) : Len(books[k].data.text_chunks) >= 2
  /\ summary.total_words >= 5

\* a before b in code-point order
CodePointLess(a, b) ==
  \/ Len(a) < Len(b) /\ a = SubSeq(b, 1, Len(a))
  \/ \E k \in 1..Len(a) :
       k <= Len(b) /\ SubSeq(a, 1, k - 1) = SubSeq(b, 1, k - 1) /\ a[k] < b[k]

EndsWithPdfIgnoringCase(file) ==
  Len(file) >= 4 /\ \A k \in 1..4 : LowerChar(file[Len(file) - 4 + k]) = Lit_pdf[k]

\* every name of the folder that ends in .pdf whatever its case, once each
EveryPdfOnce ==
  /\ {pdf_files[k] : k \in 1..Len(pdf_files)} = {f \in listing : EndsWithPdfIgnoringCase(f)}
  /\ Len(pdf_files) = Cardinality({f \in listing : EndsWithPdfIgnoringCase(f)})

\* the files are taken one after another in the order of pdf_files, and a book
\* is counted in the summary only when its whole pipeline is over
OneAfterAnother ==
  /\ processed = SubSeq(pdf_files, 1, Len(processed))
  /\ InSingle => Len(processed) = file_index /\ summary.total_books = file_index - 1
  /\ pc = "loop" => Len(processed) = file_index - 1 /\ summary.total_books = file_index - 1
  /\ AfterProcessAll => processed = pdf_files

\* C7 as stated: the files are processed in case-insensitive sorted order.
ProcessingOrderIgnoringCase ==
  pc \notin {"main", "exit", "process_all_pdfs"} =>
    /\ EveryPdfOnce
    /\ \A j \in 1..Len(pdf_files) : \A k \in (j + 1)..Len(pdf_files) :
         ~CodePointLess(Lower(pdf_files[k]), Lower(pdf_files[j]))
    /\ OneAfterAnother

\* C7 as amended: every name of the folder ending in .pdf (case-insensitively)
\* is processed exactly once, one after another in code-point (case-sensitive)
\* sorted order, and a book is merged into the summary only after its whole
\* pipeline has finished.
ProcessingOrder ==
  pc \notin {"main", "exit", "process_all_pdfs"} =>
    /\ EveryPdfOnce
    /\ \A j \in 1..Len(pdf_files) : \A k \in (j + 1)..Len(pdf_files) :
         CodePointLess(pdf_files[j], pdf_files[k])
    /\ OneAfterAnother

\* 'B.pdf' was processed, then 'a.pdf'
ProcessingOrderWitness ==
  /\ pc = "done"
  /\ \E j \in 1..Len(processed) : \E k \in (j + 1)..Len(processed) :
       processed[j] = <<66, 46, 112, 100, 102>> /\ processed[k] = <<97, 46, 112, 100, 102>>

PhasesRun ==
  CASE pc = "metadata" -> {}
    [] pc = "text" -> {"metadata"}
    [] pc = "images" -> {"metadata", "text"}
    [] pc = "code" -> {"metadata", "text", "images"}
    [] pc \in {"store", "merge"} -> {"metadata", "text", "images", "code"}
    [] OTHER -> {}

\* C8: in process_single_pdf the phases run in the order metadata, text,
\* images, code; a phase that met an error returned its empty or default
\* result and only that phase did; the other phases' results are the
\* document's; the record stored holds them; no error left process_single_pdf.
PhaseErrorIsolation ==
  /\ skipped = <<>>
  /\ InSingle =>
       LET f == FileOf(pdf_files[file_index])
       IN /\ errors_logged \subseteq PhasesRun
          /\ pdf_files[file_index] \in unreadable => errors_logged = PhasesRun
          /\ "metadata" \in PhasesRun =>
               metadata = IF "metadata" \in errors_logged
                          THEN [title |-> "", pages |-> 0, file_size |-> 0,
                                pdf_version |-> "unknown", book_name |-> book_name]
                          ELSE DocMetadata(f, book_name)
          /\ "text" \in PhasesRun =>
               text_chunks = IF "text" \in errors_logged THEN <<>>
                             ELSE DocTextChunks(f, 1, book_name)
          /\ "images" \in PhasesRun =>
               images = IF "images" \in errors_logged THEN <<>> ELSE DocImages(f, 1, book_name)
          /\ "code" \in PhasesRun =>
               code_blocks = IF "code" \in errors_logged THEN <<>>
                             ELSE DocCodeBlocks(f, 1, book_name)
          /\ pc = "merge" =>
               /\ HasBook(books, book_name)
               /\ BookAt(books, book_name).metadata = metadata
               /\ BookAt(books, book_name).text_chunks = text_chunks
               /\ BookAt(books, book_name).images = images
               /\ BookAt(books, book_name).code_blocks = code_blocks

\* the text phase alone failed on a document with pages, images and code
PhaseErrorIsolationWitness ==
  /\ pc = "merge"
  /\ errors_logged = {"text"}
  /\ text_chunks = <<>>
  /\ metadata.pages > 0
  /\ images # <<>>
  /\ code_blocks # <<>>

\* C10: every document a phase opened is closed when the phase has returned.
HandlesReleased == open_docs = 0

\* C11: a run of main whose directory resolves ends with both output documents
\* written, once each, the detailed one then the RAG-ready one, whatever the
\* folder holds; nothing is written before every book is processed; only a
\* run whose directory does not resolve writes nothing.
OutputsAlwaysProduced ==
  /\ pc = "done" => written = <<"all_books_data.json", "rag_ready_data.json">>
  /\ written # <<>> => AfterProcessAll /\ processed = pdf_files
  /\ pc = "exit" => written = <<>>

====
